---- MODULE Spec2Model ----
(***************************************************************************)
(* A model of scripts/lib/CIME/hist_utils.py: the history-file matcher     *)
(* (_hists_match), the comparator classification (cprnc), the batch        *)
(* comparison (_compare_hists, compare_test, compare_baseline) and the     *)
(* synopsis reducer (get_ts_synopsis).                                     *)
(*                                                                         *)
(* Text is modelled as a sequence of tokens.  File names are sequences of  *)
(* single characters, so that rfind, endswith, slicing and the regular     *)
(* expression of _hists_match are computed as Python computes them.        *)
(***************************************************************************)
EXTENDS Integers, Sequences, FiniteSets, TLC

VARIABLES
    \* ---- _hists_match
    hists1,        \* first list of file names
    hists2,        \* second list of file names
    suffix1,       \* suffix of the first list ("" is <<>>)
    suffix2,       \* suffix of the second list
    mres,          \* the call's outcome, NoCall before the call
    \* ---- cprnc
    cin,           \* the comparator's run: exit status, output, the two flags
    cres,          \* cprnc's outcome, CprncNoCall before the call
    \* ---- _compare_hists under compare_test or compare_baseline
    ch,            \* the locals of _compare_hists, and where it stands
    ret,           \* what the operation returned, NoReturn before it does
    \* ---- get_ts_synopsis
    blob,          \* the comments handed to get_ts_synopsis
    synopsis,      \* its result, NoSynopsis before the call
    \* ---- the baseline directory and the run directory
    tree,          \* the baseline directory: whether it exists, its files
    bless,         \* the bless log of the baseline directory
    rundir,        \* the names of the files of the run directory
    \* ---- generate_baseline, generate_teststatus and the other callers
    lock,          \* the process inside SharedArea, 0 when there is none
    gen,           \* per process: the locals of its call, where it stands
    ncalls         \* the number of calls made so far

mvars == <<hists1, hists2, suffix1, suffix2, mres>>

cvars == <<cin, cres>>

hvars == <<ch, ret>>

svars == <<blob, synopsis>>

gvars == <<tree, bless, rundir, lock, gen, ncalls>>

vars ==
    <<hists1, hists2, suffix1, suffix2, mres, cin, cres, ch, ret, blob,
      synopsis, tree, bless, rundir, lock, gen, ncalls>>

\* ------------------------------------------------------------------------
\* Bounds of the model
\* ------------------------------------------------------------------------

\* the number of file names in the two lists handed to _hists_match together
MaxFiles == 4

\* the number of file names the archive lists during one comparison
MaxRunFiles == 3

\* the number of lines of a comment blob handed to get_ts_synopsis
MaxLines == 3

\* the processes that call generate_baseline or generate_teststatus
NumProcs == 2

\* the calls made in one run of the model
MaxCalls == 2

\* the files the archive lists for one call of generate_baseline
MaxGenFiles == 2

\* ------------------------------------------------------------------------
\* Python string primitives on token sequences
\* ------------------------------------------------------------------------

\* The characters of the model's file names, in code point order.
Alphabet ==
    <<".", "/", "0", "1", "2", "F", "_", "a", "b", "c", "e", "h", "i", "l",
      "m", "n", "p", "r", "s", "t", "u">>

Ord(c) == CHOOSE i \in 1..Len(Alphabet) : Alphabet[i] = c

\* a < b for two strings (str.__lt__)
RECURSIVE StrLess(_, _)
StrLess(a, b) ==
    IF b = <<>> THEN FALSE
    ELSE IF a = <<>> THEN TRUE
    ELSE IF a[1] = b[1] THEN StrLess(Tail(a), Tail(b))
    ELSE Ord(a[1]) < Ord(b[1])

\* a < b for two pairs of strings (tuple.__lt__)
PairLess(p, q) ==
    IF p[1] = q[1] THEN StrLess(p[2], q[2]) ELSE StrLess(p[1], q[1])

\* sorted(list) of distinct strings
RECURSIVE SortedStrs(_)
SortedStrs(S) ==
    IF S = {} THEN <<>>
    ELSE LET m == CHOOSE x \in S : \A y \in S \ {x} : StrLess(x, y)
         IN  <<m>> \o SortedStrs(S \ {m})

\* sorted(list) of distinct pairs of strings
RECURSIVE SortedPairs(_)
SortedPairs(S) ==
    IF S = {} THEN <<>>
    ELSE LET m == CHOOSE x \in S : \A y \in S \ {x} : PairLess(x, y)
         IN  <<m>> \o SortedPairs(S \ {m})

\* s[i:i+len(p)] == p, for a 1-based i
OccursAt(s, p, i) ==
    /\ i >= 1
    /\ i + Len(p) - 1 <= Len(s)
    /\ \A k \in 1..Len(p) : s[i + k - 1] = p[k]

\* p in s
Contains(s, p) == \E i \in 1..(Len(s) + 1) : OccursAt(s, p, i)

\* s.rfind(p), 1-based; 0 stands for Python's -1
RFind(s, p) ==
    LET hits == {i \in 1..(Len(s) + 1) : OccursAt(s, p, i)}
    IN  IF hits = {} THEN 0 ELSE CHOOSE i \in hits : \A j \in hits : j <= i

\* s.endswith(p)
EndsWith(s, p) == Len(p) <= Len(s) /\ OccursAt(s, p, Len(s) - Len(p) + 1)

\* s[:n], n possibly negative
PySliceTo(s, n) ==
    LET stop == IF n < 0 THEN (IF Len(s) + n < 0 THEN 0 ELSE Len(s) + n)
                ELSE (IF n > Len(s) THEN Len(s) ELSE n)
    IN  SubSeq(s, 1, stop)

\* os.path.basename(s)
BaseName(s) ==
    LET cut == RFind(s, <<"/">>)
    IN  IF cut = 0 THEN s ELSE SubSeq(s, cut + 1, Len(s))

\* list.index(item): the first position of item
Index(seq, item) ==
    CHOOSE i \in 1..Len(seq) : seq[i] = item /\ \A j \in 1..(i - 1) : seq[j] # item

\* list.remove(item) under "if item in list"
Remove(seq, item) ==
    IF \E i \in 1..Len(seq) : seq[i] = item
    THEN LET i == Index(seq, item)
         IN  SubSeq(seq, 1, i - 1) \o SubSeq(seq, i + 1, Len(seq))
    ELSE seq

Range(seq) == {seq[i] : i \in 1..Len(seq)}

IsDigit(c) == c \in {"0", "1", "2", "3", "4", "5", "6", "7", "8", "9"}

\* ------------------------------------------------------------------------
\* Pieces of file names
\* ------------------------------------------------------------------------

S_cam == <<"c", "a", "m">>
S_h0nc == <<".", "h", "0", ".", "n", "c">>
S_h1nc == <<".", "h", "1", ".", "n", "c">>
S_0001 == <<"_", "0", "0", "0", "1">>
S_0002 == <<"_", "0", "0", "0", "2">>
S_b == <<"b">>

\* ------------------------------------------------------------------------
\* _hists_match
\* ------------------------------------------------------------------------

\* re.search("(.+)_[0-9]{4}(.+.nc)", name): group 1 is greedy, so the last
\* "_dddd" that is preceded by a character and followed by ".+.nc" is the
\* one matched; group 2 is greedy, so it ends at the last "nc" that leaves
\* two characters before it.  The result is m.group(1)+m.group(2).
MultiSearch(name) ==
    LET us == {j \in 2..Len(name) :
                  /\ name[j] = "_"
                  /\ j + 4 <= Len(name)
                  /\ \A d \in 1..4 : IsDigit(name[j + d])
                  /\ \E k \in (j + 7)..(Len(name) - 1) :
                         name[k] = "n" /\ name[k + 1] = "c"}
    IN  IF us = {} THEN [matched |-> FALSE, stripped |-> <<>>]
        ELSE LET j  == CHOOSE x \in us : \A y \in us : y <= x
                 ks == {k \in (j + 7)..(Len(name) - 1) :
                           name[k] = "n" /\ name[k + 1] = "c"}
                 k  == CHOOSE x \in ks : \A y \in ks : y <= x
             IN  [matched |-> TRUE,
                  stripped |-> SubSeq(name, 1, j - 1) \o SubSeq(name, j + 5, k + 1)]

\* The body of the inner loop that computes normalized_name for one file.
NormalizedName(model, hist, suffix) ==
    LET hist_basename == BaseName(hist)
        offset == RFind(hist_basename, model)
    IN  IF offset = 0
        THEN [ok |-> FALSE, name |-> <<>>, err |-> "cant find model name"]
        ELSE LET name0 == BaseName(SubSeq(hist_basename, offset, Len(hist_basename)))
             IN  IF suffix = <<>>
                 THEN [ok |-> TRUE, name |-> name0, err |-> ""]
                 ELSE IF ~EndsWith(name0, suffix)
                 THEN [ok |-> FALSE, name |-> <<>>, err |-> "How did not have suffix"]
                 ELSE [ok |-> TRUE,
                       name |-> PySliceTo(name0, Len(name0) - Len(suffix) - 1),
                       err |-> ""]

\* normalized: the list of the files' normalized names
Normalized(model, hists, suffix) ==
    [i \in 1..Len(hists) |-> NormalizedName(model, hists[i], suffix).name]

\* multi_normalized: the instance-stripped names of the names that match
RECURSIVE MultiNormalized(_)
MultiNormalized(normalized) ==
    IF normalized = <<>> THEN <<>>
    ELSE LET m == MultiSearch(Head(normalized))
         IN  (IF m.matched THEN <<m.stripped>> ELSE <<>>)
                 \o MultiNormalized(Tail(normalized))

\* multiinst: some name of either list matched the instance pattern
MultiInst(normalized1, normalized2) ==
    \E n \in Range(normalized1) \cup Range(normalized2) : MultiSearch(n).matched

\* "in this case hists1 contains multiinstance hists2 does not": the double
\* loop over enumerate(multi_normalized1) and enumerate(hists2).
RECURSIVE Reconcile1(_, _, _, _, _, _, _)
Reconcile1(h1, h2, multi_normalized1, normalized2, idx, idx1, st) ==
    IF idx > Len(multi_normalized1) THEN st
    ELSE IF idx1 > Len(h2)
    THEN Reconcile1(h1, h2, multi_normalized1, normalized2, idx + 1, 1, st)
    ELSE IF multi_normalized1[idx] = normalized2[idx1]
    THEN Reconcile1(h1, h2, multi_normalized1, normalized2, idx, idx1 + 1,
             [match_ups   |-> Append(st.match_ups, <<h1[idx], h2[idx1]>>),
              two_not_one |-> Remove(st.two_not_one, h2[idx1]),
              one_not_two |-> Remove(st.one_not_two, h1[idx])])
    ELSE Reconcile1(h1, h2, multi_normalized1, normalized2, idx, idx1 + 1, st)

\* "in this case hists2 contains multiinstance hists1 does not"
RECURSIVE Reconcile2(_, _, _, _, _, _, _)
Reconcile2(h1, h2, multi_normalized2, normalized1, idx, idx1, st) ==
    IF idx > Len(multi_normalized2) THEN st
    ELSE IF idx1 > Len(h1)
    THEN Reconcile2(h1, h2, multi_normalized2, normalized1, idx + 1, 1, st)
    ELSE IF multi_normalized2[idx] = normalized1[idx1]
    THEN Reconcile2(h1, h2, multi_normalized2, normalized1, idx, idx1 + 1,
             [match_ups   |-> Append(st.match_ups, <<h1[idx1], h2[idx]>>),
              one_not_two |-> Remove(st.one_not_two, h1[idx1]),
              two_not_one |-> Remove(st.two_not_one, h2[idx])])
    ELSE Reconcile2(h1, h2, multi_normalized2, normalized1, idx, idx1 + 1, st)

\* the lists differ, so the special case is tried

SpecialCase(multi_normalized1, multi_normalized2) ==
    multi_normalized1 # multi_normalized2

\* a "Programming error" check passes when it does not apply
NoCountCheckMutant(multiinst, n_match, n_only, n_hists) == TRUE

CountCheck(multiinst, n_match, n_only, n_hists) ==
    multiinst \/ n_match + n_only = n_hists

\* set(a) & set(b) where the code takes set(a) - set(b)
OnlyInMutant(a, b) == Range(a) \cap Range(b)

\* set(normalized1) - set(normalized2), and the same with the lists swapped
OnlyIn(a, b) == Range(a) \ Range(b)

\* both = set(normalized1) & set(normalized2), read as one key only
BothMutant(normalized1, normalized2) ==
    LET both == Range(normalized1) \cap Range(normalized2)
    IN  IF both = {} THEN {} ELSE {CHOOSE k \in both : TRUE}

Both(normalized1, normalized2) == Range(normalized1) \cap Range(normalized2)

MatchAbort(e) ==
    [status |-> "abort", err |-> e,
     one_not_two |-> <<>>, two_not_one |-> <<>>, match_ups |-> <<>>]

\* lines 169-177: the leftovers and the pairs by key, each list sorted
BaseResult(h1, h2, normalized1, normalized2) ==
    [one_not_two |-> SortedStrs({h1[Index(normalized1, item)] :
                                    item \in OnlyIn(normalized1, normalized2)}),
     two_not_one |-> SortedStrs({h2[Index(normalized2, item)] :
                                    item \in OnlyIn(normalized2, normalized1)}),
     match_ups   |-> SortedPairs({<<h1[Index(normalized1, item)],
                                    h2[Index(normalized2, item)]>> :
                                    item \in Both(normalized1, normalized2)})]

\* lines 181-192: hists1 is the multi-instance side
Special1(h1, h2, multi_normalized1, multi_normalized2, normalized2, st) ==
    IF /\ SpecialCase(multi_normalized1, multi_normalized2)
       /\ Range(multi_normalized1) = Range(normalized2)
    THEN Reconcile1(h1, h2, multi_normalized1, normalized2, 1, 1, st)
    ELSE st

\* lines 181, 194-203: hists2 is the multi-instance side
Special2(h1, h2, multi_normalized1, multi_normalized2, normalized1, st) ==
    IF /\ SpecialCase(multi_normalized1, multi_normalized2)
       /\ Range(multi_normalized2) = Range(normalized1)
    THEN Reconcile2(h1, h2, multi_normalized2, normalized1, 1, 1, st)
    ELSE st

\* lines 205-209: the two checks and the return
CheckedResult(multiinst, h1, h2, n_1_not_2, n_2_not_1, st) ==
    IF ~CountCheck(multiinst, Len(st.match_ups), n_1_not_2, Len(h1))
    THEN MatchAbort("Programming error1")
    ELSE IF ~CountCheck(multiinst, Len(st.match_ups), n_2_not_1, Len(h2))
    THEN MatchAbort("Programming error2")
    ELSE [status |-> "ok", err |-> "",
          one_not_two |-> st.one_not_two,
          two_not_one |-> st.two_not_one,
          match_ups |-> st.match_ups]

\* lines 169-209, once the names are normalized
MatchNormalized(h1, h2, normalized1, normalized2, multi1, multi2) ==
    CheckedResult(MultiInst(normalized1, normalized2), h1, h2,
        Cardinality(OnlyIn(normalized1, normalized2)),
        Cardinality(OnlyIn(normalized2, normalized1)),
        Special2(h1, h2, multi1, multi2, normalized1,
            Special1(h1, h2, multi1, multi2, normalized2,
                BaseResult(h1, h2, normalized1, normalized2))))

\* the first file of the list whose normalization fails, 0 if none does
FirstBad(model, hists, suffix) ==
    LET bad == {i \in 1..Len(hists) : ~NormalizedName(model, hists[i], suffix).ok}
    IN  IF bad = {} THEN 0 ELSE CHOOSE i \in bad : \A j \in bad : i <= j

\* lines 169-209 on the normalized lists
MatchLists(h1, h2, normalized1, normalized2) ==
    MatchNormalized(h1, h2, normalized1, normalized2,
        MultiNormalized(normalized1), MultiNormalized(normalized2))

\* lines 152-167 for the two lists in turn, then the rest
MatchFrom(model, h1, h2, s1, s2, bad1, bad2) ==
    IF bad1 # 0 THEN MatchAbort(NormalizedName(model, h1[bad1], s1).err)
    ELSE IF bad2 # 0 THEN MatchAbort(NormalizedName(model, h2[bad2], s2).err)
    ELSE MatchLists(h1, h2, Normalized(model, h1, s1), Normalized(model, h2, s2))

\* _hists_match(model, hists1, hists2, suffix1, suffix2)
HistsMatch(model, h1, h2, s1, s2) ==
    MatchFrom(model, h1, h2, s1, s2,
        FirstBad(model, h1, s1), FirstBad(model, h2, s2))

\* ------------------------------------------------------------------------
\* cprnc
\* ------------------------------------------------------------------------

\* CPRNC_FIELDLISTS_DIFFER
CPRNC_FIELDLISTS_DIFFER == <<"files differ only in their field lists">>

\* The summary strings looked for in the comparator's output.  A string is a
\* sequence of tokens; the digits and the blank before them are tokens of
\* their own, so that " 0 had" does not occur in "10 had".
IDENTICAL_STRING == <<"files ", "seem to be ", "IDENTICAL">>

DIFFERENT_STRING == <<"the two ", "files ", "seem to be ", "DIFFERENT">>

FIELDLIST_STRING == <<"the two ", "files ", "DIFFER only in their field lists">>

ZERO_DIFFS_STRING == <<" ", "0", " had non-zero differences">>

\* the lines a comparator run can print
CprncLines ==
    { <<"diff_test: ", "the two ", "files ", "seem to be ", "IDENTICAL">>,
      <<"diff_test: ", "the two ", "files ", "seem to be ", "DIFFERENT">>,
      <<"diff_test: ", "the two ", "files ", "DIFFER only in their field lists">>,
      <<"these ", "files ", "DIFFER only in their field lists">>,
      <<"of which", " ", "0", " had non-zero differences">>,
      <<"of which", " ", "1", "0", " had non-zero differences">>,
      <<"ERROR: ", "files ", "cannot be opened">> }

\* "string in out", out being the set of the output's lines (no string
\* looked for holds a line break)
InOut(string, out) == \E line \in out : Contains(line, string)

CprncAbort ==
    [status |-> "abort", files_match |-> FALSE, comment |-> <<>>]

CprncReturn(files_match, comment) ==
    [status |-> "ok", files_match |-> files_match, comment |-> comment]

\* cprnc without the test of cpr_stat: the output alone decides
CprncMutant(cpr_stat, out, multiinst_driver_compare, ignore_fieldlist_diffs) ==
    IF multiinst_driver_compare
    THEN CprncReturn(InOut(ZERO_DIFFS_STRING, out), <<>>)
    ELSE IF InOut(IDENTICAL_STRING, out) THEN CprncReturn(TRUE, <<>>)
    ELSE IF InOut(DIFFERENT_STRING, out) THEN CprncReturn(FALSE, <<>>)
    ELSE IF InOut(FIELDLIST_STRING, out)
    THEN (IF ignore_fieldlist_diffs THEN CprncReturn(TRUE, <<>>)
          ELSE CprncReturn(FALSE, CPRNC_FIELDLISTS_DIFFER))
    ELSE CprncAbort

\* cprnc, from the comparator's exit status and output on: (files_match,
\* comment), or the abort of "Did not find an expected summary string".
\* The name of the log file, the third value returned, is left to the caller.
Cprnc(cpr_stat, out, multiinst_driver_compare, ignore_fieldlist_diffs) ==
    IF cpr_stat = 0
    THEN IF multiinst_driver_compare
         THEN CprncReturn(InOut(ZERO_DIFFS_STRING, out), <<>>)
         ELSE IF InOut(IDENTICAL_STRING, out) THEN CprncReturn(TRUE, <<>>)
         ELSE IF InOut(DIFFERENT_STRING, out) THEN CprncReturn(FALSE, <<>>)
         ELSE IF InOut(FIELDLIST_STRING, out)
         THEN (IF ignore_fieldlist_diffs THEN CprncReturn(TRUE, <<>>)
               ELSE CprncReturn(FALSE, CPRNC_FIELDLISTS_DIFFER))
         ELSE CprncAbort
    ELSE CprncReturn(FALSE, <<>>)

\* ------------------------------------------------------------------------
\* _compare_hists, compare_test, compare_baseline
\* ------------------------------------------------------------------------

NO_COMPARE == <<"had no compare counterpart">>

NO_ORIGINAL == <<"had no original counterpart">>

FIELDLISTS_DIFFER == <<"had a different field list from">>

DIFF_COMMENT == <<"did NOT match">>

\* COMPARISON_COMMENT_OPTIONS - set([NO_COMPARE, FIELDLISTS_DIFFER])
COMPARISON_FAILURE_COMMENT_OPTIONS ==
    {NO_COMPARE, NO_ORIGINAL, FIELDLISTS_DIFFER, DIFF_COMMENT}
        \ {NO_COMPARE, FIELDLISTS_DIFFER}

\* CIME.test_status.TEST_NO_BASELINES_COMMENT, as the doctest of
\* get_ts_synopsis prints it
TEST_NO_BASELINES_COMMENT == <<"BFAIL">>

NL == "\n"

S_cpl == <<"c", "p", "l">>

S_initial == <<"i", "n", "i", "t", "i", "a", "l">>

S_dotnc == <<".", "n", "c">>

S_base == <<"b", "a", "s", "e">>

S_rest == <<"r", "e", "s", "t">>

S_multiinst == <<"m", "u", "l", "t", "i", "i", "n", "s", "t">>

\* _iter_model_file_substrs: the components of the compset, then 'cpl'
Models == <<S_cam, S_cpl>>

\* case.get_value("RUNDIR")
RunDir == "rundir"

\* os.path.join(baselineroot, case.get_value("BASECMP_CASE"))
BaseCmpDir == "baselineroot/basecmp_case"

BaselineRoot == "baselineroot"

\* the line "    File '<item>' <marker> in '<dir>' with suffix '<suffix>'\n"
MissingLine(item, marker, dir, suffix) ==
    <<"    ", "File '">> \o item \o <<"' ">> \o marker \o <<" in '", dir,
      "' with suffix '">> \o suffix \o <<"'", NL>>

\* the loops over one_not_two and over two_not_one: the lines added
RECURSIVE MissingLines(_, _, _, _)
MissingLines(items, marker, dir, suffix) ==
    IF items = <<>> THEN <<>>
    ELSE (IF Contains(Head(items), S_initial) THEN <<>>
          ELSE MissingLine(Head(items), marker, dir, suffix))
             \o MissingLines(Tail(items), marker, dir, suffix)

\* the same loops: whether all_success is set to False
AnyMissing(items) == \E i \in 1..Len(items) : ~Contains(items[i], S_initial)

\* the same loops: how many files are reported as without a counterpart
NumMissing(items) ==
    Cardinality({i \in 1..Len(items) : ~Contains(items[i], S_initial)})

\* the frame after an abort (a failed expect)
Aborted(f) == [f EXCEPT !.pc = "abort"]

\* lines 236-249, after _hists_match has returned r
AfterMatch(f, r) ==
    [f EXCEPT
        !.comments = f.comments
            \o MissingLines(r.one_not_two, NO_COMPARE, f.from_dir2, f.suffix2)
            \o MissingLines(r.two_not_one, NO_ORIGINAL, f.from_dir1, f.suffix1),
        !.all_success = f.all_success /\ ~AnyMissing(r.one_not_two)
                                      /\ ~AnyMissing(r.two_not_one),
        !.num_compared = f.num_compared + Len(r.match_ups),
        !.n_missing = f.n_missing + NumMissing(r.one_not_two)
                          + NumMissing(r.two_not_one),
        !.match_ups = r.match_ups,
        !.pc = IF r.match_ups = <<>> THEN "loop" ELSE "pairs"]

\* lines 232-236: the component is skipped or its files are matched
MatchStep(f, model, h1, h2) ==
    IF Len(h1) = 0 /\ Len(h2) = 0
    THEN [f EXCEPT !.comments = f.comments \o
             <<"    ", "no hist files found for model ">> \o model \o <<NL>>]
    ELSE IF HistsMatch(model, h1, h2, f.suffix1, f.suffix2).status = "abort"
    THEN Aborted(f)
    ELSE AfterMatch(f, HistsMatch(model, h1, h2, f.suffix1, f.suffix2))

\* lines 225-249: one turn of the loop over the models, with the two lists
\* the archive gives for the model
ModelStep(f, h1, h2) ==
    MatchStep(
        [f EXCEPT
            !.multiinst_driver_compare =
                f.multiinst_driver_compare
                    \/ (Head(f.models) = S_cpl /\ f.suffix2 = S_multiinst),
            !.comments = f.comments \o <<"  ", "comparing model '">>
                             \o Head(f.models) \o <<"'", NL>>,
            !.models = Tail(f.models),
            !.files_left = f.files_left - Len(h1) - Len(h2),
            !.n_fetch = f.n_fetch + 2],
        Head(f.models), h1, h2)

\* the name of the comparator's log, as "cat" prints it (the instance tag
\* and the outfile suffix of the name are left out)
CprncLogFile(f, hist1) ==
    <<f.from_dir1, "/">> \o BaseName(hist1) \o <<".cprnc.out">>

\* lines 260-275: the comment and the flag after cprnc has returned c
AfterCprnc(f, hist1, hist2, c) ==
    IF c.status = "abort" THEN Aborted(f)
    ELSE IF c.files_match
    THEN [f EXCEPT !.comments = f.comments \o <<"    ">> \o hist1
                       \o <<" matched ">> \o hist2 \o <<NL>>]
    ELSE [f EXCEPT
             !.comments = f.comments \o <<"    ">> \o hist1 \o <<" ">>
                 \o (IF c.comment = CPRNC_FIELDLISTS_DIFFER
                     THEN FIELDLISTS_DIFFER ELSE DIFF_COMMENT)
                 \o <<" ">> \o hist2 \o <<NL>>
                 \o <<"    ", "cat ">> \o CprncLogFile(f, hist1) \o <<NL>>,
             !.n_mismatch = f.n_mismatch + 1,
             !.all_success = FALSE]


\* lines 251-275: one turn of the loop over match_ups, with the exit status
\* and the output of the comparator, should it be run
PairStep(f, cpr_stat, out) ==
    IF ~Contains(Head(f.match_ups)[1], S_dotnc)
    THEN [f EXCEPT !.match_ups = Tail(f.match_ups),
                   !.pc = IF Len(f.match_ups) = 1 THEN "loop" ELSE "pairs"]
    ELSE AfterCprnc([f EXCEPT !.match_ups = Tail(f.match_ups),
                              !.pc = IF Len(f.match_ups) = 1 THEN "loop"
                                     ELSE "pairs",
                              !.n_cprnc = f.n_cprnc + 1],
             Head(f.match_ups)[1], Head(f.match_ups)[2],
             Cprnc(cpr_stat, out, f.multiinst_driver_compare,
                   f.ignore_fieldlist_diffs))


\* line 277
NothingCompared(num_compared, testcase) ==
    num_compared = 0 /\ testcase # "PFS"

\* the closing PASS or FAIL is chosen before the test of num_compared
CompareHistsReturnMutant(f) ==
    IF NothingCompared(f.num_compared, f.testcase)
    THEN [success |-> FALSE,
          comments |-> f.comments
              \o <<"Did not compare any hist files! Missing baselines?", NL,
                   IF f.all_success THEN "PASS" ELSE "FAIL">>]
    ELSE [success |-> f.all_success,
          comments |-> f.comments
              \o <<IF f.all_success THEN "PASS" ELSE "FAIL">>]

\* lines 277-283: the (all_success, comments) that _compare_hists returns
CompareHistsReturn(f) ==
    IF NothingCompared(f.num_compared, f.testcase)
    THEN [success |-> FALSE,
          comments |-> f.comments
              \o <<"Did not compare any hist files! Missing baselines?", NL,
                   "FAIL">>]
    ELSE [success |-> f.all_success,
          comments |-> f.comments
              \o <<IF f.all_success THEN "PASS" ELSE "FAIL">>]

\* lines 405-411: the comment compare_baseline adds for the last bless
BlessComment(model_name, bless_log) ==
    IF model_name = "e3sm" /\ bless_log.exists /\ bless_log.lines # <<>>
    THEN <<NL, "  ", "Most recent bless: ">>
             \o bless_log.lines[Len(bless_log.lines)]
    ELSE <<>>

\* only the baseline root is looked at
DirsToCheckMutant(baseline_dir) ==
    IF baseline_dir = "None" THEN <<BaselineRoot>> ELSE <<baseline_dir>>

\* lines 392-398: dirs_to_check
DirsToCheck(baseline_dir) ==
    IF baseline_dir = "None" THEN <<BaselineRoot, BaseCmpDir>>
    ELSE <<baseline_dir>>

\* lines 392-398: basecmp_dir
BaseCmpDirOf(baseline_dir) ==
    IF baseline_dir = "None" THEN BaseCmpDir ELSE baseline_dir

\* lines 400-402: the first directory of dirs_to_check that is none, "" if
\* all are directories
FirstMissing(dirs, existing) ==
    IF \A i \in 1..Len(dirs) : dirs[i] \in existing THEN ""
    ELSE dirs[CHOOSE i \in 1..Len(dirs) :
                 /\ dirs[i] \notin existing
                 /\ \A j \in 1..(i - 1) : dirs[j] \in existing]

\* line 402: the comment of the early return
NoBaselineComment(bdir) ==
    <<"ERROR ">> \o TEST_NO_BASELINES_COMMENT
        \o <<" baseline directory '", bdir, "' does not exist">>

\* lines 213-224: the frame of _compare_hists before its loop
NewFrame(op, testcase, dir1, dir2, s1, s2, ignore) ==
    [pc |-> IF dir1 = dir2 /\ s1 = s2 THEN "abort" ELSE "loop",
     op |-> op,
     testcase |-> testcase,
     from_dir1 |-> dir1,
     from_dir2 |-> dir2,
     suffix1 |-> s1,
     suffix2 |-> s2,
     ignore_fieldlist_diffs |-> ignore,
     all_success |-> TRUE,
     num_compared |-> 0,
     comments |-> <<"Comparing hists for case '", "casename", "' dir1='", dir1,
                    "', suffix1='">> \o s1 \o <<"',  dir2='", dir2,
                    "' suffix2='">> \o s2 \o <<"'", NL>>,
     multiinst_driver_compare |-> FALSE,
     models |-> Models,
     match_ups |-> <<>>,
     files_left |-> MaxRunFiles,
     n_fetch |-> 0,
     n_cprnc |-> 0,
     n_mismatch |-> 0,
     n_missing |-> 0,
     baseline_dir |-> "",
     existing |-> {}]

\* no comparison is under way
NoFrame ==
    [pc |-> "idle", op |-> "", testcase |-> "", from_dir1 |-> "",
     from_dir2 |-> "", suffix1 |-> <<>>, suffix2 |-> <<>>,
     ignore_fieldlist_diffs |-> FALSE, all_success |-> TRUE,
     num_compared |-> 0, comments |-> <<>>,
     multiinst_driver_compare |-> FALSE, models |-> <<>>, match_ups |-> <<>>,
     files_left |-> 0, n_fetch |-> 0, n_cprnc |-> 0, n_mismatch |-> 0,
     n_missing |-> 0, baseline_dir |-> "", existing |-> {}]

NoReturn == [status |-> "none", success |-> FALSE, comments |-> <<>>]

AbortReturn == [status |-> "abort", success |-> FALSE, comments |-> <<>>]

Returns(success, comments) ==
    [status |-> "ok", success |-> success, comments |-> comments]

\* ------------------------------------------------------------------------
\* get_ts_synopsis
\* ------------------------------------------------------------------------

\* the tokens that are white space
IsSpace(tok) == tok \in {NL, " ", "  ", "    "}

RECURSIVE LStrip(_)
LStrip(text) ==
    IF text # <<>> /\ IsSpace(Head(text)) THEN LStrip(Tail(text)) ELSE text

RECURSIVE RStrip(_)
RStrip(text) ==
    IF text # <<>> /\ IsSpace(text[Len(text)])
    THEN RStrip(SubSeq(text, 1, Len(text) - 1))
    ELSE text

\* str.strip()
Strip(text) == RStrip(LStrip(text))

\* str.splitlines()
RECURSIVE SplitLines(_)
SplitLines(text) ==
    IF text = <<>> THEN <<>>
    ELSE IF NL \notin Range(text) THEN <<text>>
    ELSE <<SubSeq(text, 1, Index(text, NL) - 1)>>
             \o SplitLines(SubSeq(text, Index(text, NL) + 1, Len(text)))

\* only the "did NOT match" comment counts as a real difference
FailureOptionsMutant == {DIFF_COMMENT}

\* the comments the inner loop of get_ts_synopsis looks for
FailureOptions == COMPARISON_FAILURE_COMMENT_OPTIONS

\* the field list case is tested before the case of both
SynopsisOfMutant(has_fieldlist_differences, has_bfails, has_real_fails) ==
    IF has_real_fails THEN <<"DIFF">>
    ELSE IF has_fieldlist_differences
    THEN <<"FIELDLIST field lists differ (otherwise bit-for-bit)">>
    ELSE IF has_fieldlist_differences /\ has_bfails
    THEN <<"MULTIPLE ISSUES: field lists differ and some baseline files were missing">>
    ELSE IF has_bfails
    THEN <<"ERROR ">> \o TEST_NO_BASELINES_COMMENT
             \o <<" some baseline files were missing">>
    ELSE <<>>

\* lines 550-570: the synopsis of the three flags
SynopsisOf(has_fieldlist_differences, has_bfails, has_real_fails) ==
    IF has_real_fails THEN <<"DIFF">>
    ELSE IF has_fieldlist_differences /\ has_bfails
    THEN <<"MULTIPLE ISSUES: field lists differ and some baseline files were missing">>
    ELSE IF has_fieldlist_differences
    THEN <<"FIELDLIST field lists differ (otherwise bit-for-bit)">>
    ELSE IF has_bfails
    THEN <<"ERROR ">> \o TEST_NO_BASELINES_COMMENT
             \o <<" some baseline files were missing">>
    ELSE <<>>

\* lines 538-548: the three flags of the lines
SynopsisOfLines(lines) ==
    SynopsisOf(
        \E i \in 1..Len(lines) : Contains(lines[i], FIELDLISTS_DIFFER),
        \E i \in 1..Len(lines) : Contains(lines[i], NO_COMPARE),
        \E i \in 1..Len(lines) : \E c \in FailureOptions : Contains(lines[i], c))

\* get_ts_synopsis(comments)
GetTsSynopsis(text) ==
    IF text = <<>> THEN <<>>
    ELSE IF NL \notin Range(Strip(text)) THEN Strip(text)
    ELSE SynopsisOfLines(SplitLines(text))

\* ------------------------------------------------------------------------
\* Inputs
\* ------------------------------------------------------------------------

\* cam.h0.nc, cam.h1.nc, F.cam.h0.nc, cam_0001.h0.nc, cam_0002.h0.nc,
\* cam.h0.nc.b, cam_0001.h0.nc.b
HistPool ==
    { S_cam \o S_h0nc,
      S_cam \o S_h1nc,
      <<"F", ".">> \o S_cam \o S_h0nc,
      S_cam \o S_0001 \o S_h0nc,
      S_cam \o S_0002 \o S_h0nc,
      S_cam \o S_h0nc \o <<".">> \o S_b,
      S_cam \o S_0001 \o S_h0nc \o <<".">> \o S_b }

SuffixPool == {<<>>, S_b}

NoCall == [status |-> "none", err |-> "",
           one_not_two |-> <<>>, two_not_one |-> <<>>, match_ups |-> <<>>]

CprncNoCall == [status |-> "none", files_match |-> FALSE, comment |-> <<>>]

\* the exit statuses of the comparator
ExitStatuses == {0, 1, 2}

CprncRuns ==
    [cpr_stat : ExitStatuses,
     out : SUBSET CprncLines,
     multiinst_driver_compare : BOOLEAN,
     ignore_fieldlist_diffs : BOOLEAN]

NoCprncRun ==
    [cpr_stat |-> 0, out |-> {},
     multiinst_driver_compare |-> FALSE, ignore_fieldlist_diffs |-> FALSE]

\* the history files of a component that a directory can hold: for cam
\* cam.h0.nc, cam.initial.nc and cam.h0.bin, for cpl cpl.hi.nc and
\* cpl_0001.hi.nc
DirPool(model) ==
    IF model = S_cam
    THEN { S_cam \o S_h0nc,
           S_cam \o <<".">> \o S_initial \o S_dotnc,
           S_cam \o <<".", "h", "0", ".", "b", "i", "n">> }
    ELSE { S_cpl \o <<".", "h", "i">> \o S_dotnc,
           S_cpl \o S_0001 \o <<".", "h", "i">> \o S_dotnc }

\* the lists of at most n distinct members of S
InjSeqs(S, n) ==
    UNION {{q \in [1..k -> S] : \A i, j \in 1..k : q[i] = q[j] => i = j} :
              k \in 0..n}

\* archive.get_latest_hist_files(..., suffix=suffix): the files carry the
\* suffix asked for
WithSuffix(files, suffix) ==
    [i \in 1..Len(files) |->
        IF suffix = <<>> THEN files[i] ELSE files[i] \o <<".">> \o suffix]

\* the outputs of a comparator run that _compare_hists is driven with
CompareOuts ==
    { {<<"diff_test: ", "the two ", "files ", "seem to be ", "IDENTICAL">>,
       <<"of which", " ", "0", " had non-zero differences">>},
      {<<"diff_test: ", "the two ", "files ", "seem to be ", "DIFFERENT">>,
       <<"of which", " ", "1", "0", " had non-zero differences">>},
      {<<"diff_test: ", "the two ", "files ", "seem to be ", "DIFFERENT">>,
       <<"of which", " ", "0", " had non-zero differences">>},
      {<<"diff_test: ", "the two ", "files ", "DIFFER only in their field lists">>,
       <<"of which", " ", "0", " had non-zero differences">>},
      {<<"ERROR: ", "files ", "cannot be opened">>} }

TestCases == {"PFS", "ERS"}

\* a record of the bless log, as readlines gives it
BlessRecord == <<"sha:", "commit", " date:", "timestamp", NL>>

\* the bless log of the baseline directory: absent, empty, or with records
BlessLogs ==
    { [exists |-> FALSE, lines |-> <<>>],
      [exists |-> TRUE, lines |-> <<>>],
      [exists |-> TRUE, lines |-> <<BlessRecord>>] }

\* the directories os.path.isdir can find, among those compare_baseline asks
\* for: a directory exists only inside a directory that exists, and the run
\* directory exists
DirStates(baseline_dir) ==
    IF baseline_dir = "None"
    THEN {{}, {BaselineRoot}, {BaselineRoot, BaseCmpDir}}
    ELSE IF baseline_dir = RunDir THEN {{RunDir}}
    ELSE {{}, {baseline_dir}}

NoSynopsis == [status |-> "none", value |-> <<>>]

\* the lines of a comment blob, after the doctests of get_ts_synopsis
CommentLines ==
    { <<"big error">>,
      <<>>,
      <<"    ", "File foo ">> \o FIELDLISTS_DIFFER \o <<" bar with suffix baz">>,
      <<"    ", "File foo ">> \o NO_COMPARE \o <<" in bar with suffix baz">>,
      <<"    ", "File foo ">> \o NO_ORIGINAL \o <<" in bar with suffix baz">>,
      <<"    ", "File foo ">> \o DIFF_COMMENT \o <<" bar with suffix baz">>,
      <<"Pass">> }

\* ------------------------------------------------------------------------
\* _generate_baseline_impl, generate_baseline, generate_teststatus
\* ------------------------------------------------------------------------

Procs == 1..NumProcs

\* basegen_dir: the baseline_dir argument
BaseGenDir == "baseline_dir"

\* the baseline directory: whether it is a directory, whether
\* basegen_dir/<CASE> is a directory, its files as pairs <<name, tag of the
\* call that wrote it>>, and the tags of its coupler log and TestStatus
\* (0: no such file)
NoTree ==
    [dir |-> FALSE, casedir |-> FALSE, files |-> {}, cpllog |-> 0,
     teststatus |-> 0]

\* no bless_log in the baseline directory
NoBlessLog == [exists |-> FALSE, lines |-> <<>>]

\* a process that has made no call; get_model is what get_model() gave at
\* line 494, if the call came to it
NoCallFrame ==
    [pc |-> "idle", op |-> "", allow |-> FALSE, models |-> <<>>,
     model |-> <<>>, hists |-> <<>>, num_gen |-> 0, tag |-> 0,
     comments |-> <<>>, outcome |-> "none", get_model |-> ""]

NoCalls == [p \in Procs |-> NoCallFrame]

\* a call of generate_baseline before it enters SharedArea
GenFrame(allow, tag) ==
    [NoCallFrame EXCEPT !.pc = "enter", !.op = "generate_baseline",
                        !.allow = allow, !.models = Models, !.tag = tag]

\* a call of generate_teststatus: nothing is done unless the model is cesm
StatusFrame(model_name, tag) ==
    [NoCallFrame EXCEPT !.pc = IF model_name = "cesm" THEN "enter" ELSE "done",
                        !.op = "generate_teststatus", !.tag = tag,
                        !.outcome = IF model_name = "cesm" THEN "none" ELSE "ok"]

\* a failed expect: the call leaves through the end of the with statement
GenAborted(f, why) == [f EXCEPT !.pc = "exit", !.outcome = why]

\* lines 453-454: the test that refuses to overwrite
OverwriteRefused(casedir, allow) == casedir /\ ~allow

\* lines 450-457: the directory is made, the overwrite refused or begun
GenMakeDirs(t, f) ==
    [tree |-> [t EXCEPT !.dir = TRUE],
     frame |-> IF OverwriteRefused(t.casedir, f.allow)
               THEN GenAborted(f, "refused")
               ELSE [f EXCEPT !.pc = "models",
                              !.comments = <<"Generating baselines into '",
                                             BaseGenDir, "'", NL>>]]

\* where the loop over the models goes on after the files of a model
AfterHists(models) == IF models = <<>> THEN "cpllog" ELSE "models"

\* lines 459-464: one turn of the loop over the models, with the list the
\* archive gives
GenModel(f, hists) ==
    [f EXCEPT !.model = Head(f.models),
              !.models = Tail(f.models),
              !.hists = hists,
              !.num_gen = f.num_gen + Len(hists),
              !.comments = f.comments \o <<"  ", "generating for model '">>
                               \o Head(f.models) \o <<"'", NL>>,
              !.pc = IF hists = <<>> THEN AfterHists(Tail(f.models))
                     ELSE "hist"]

\* line 468: hist[offset:], offset being hist.rfind(model)
BaselineName(model, hist) == SubSeq(hist, RFind(hist, model), Len(hist))

\* lines 469-472: the baseline is removed if it exists, and copied
PutFile(files, name, tag) ==
    {e \in files : e[1] # name} \cup {<<name, tag>>}

\* lines 465-473: one turn of the loop over the files of the model
GenHist(t, f) ==
    IF RFind(Head(f.hists), f.model) = 0
    THEN [tree |-> t, frame |-> GenAborted(f, "cant find model name")]
    ELSE [tree |-> [t EXCEPT !.files =
                       PutFile(t.files, BaselineName(f.model, Head(f.hists)),
                               f.tag)],
          frame |-> [f EXCEPT
              !.hists = Tail(f.hists),
              !.comments = f.comments
                  \o <<"    ", "generating baseline '", BaseGenDir, "/">>
                  \o BaselineName(f.model, Head(f.hists))
                  \o <<"' from file ">> \o Head(f.hists) \o <<NL>>,
              !.pc = IF Tail(f.hists) = <<>> THEN AfterHists(f.models)
                     ELSE "hist"]]

\* lines 477-486: the newest coupler log, if there is one, is copied
GenCplLog(t, f, found) ==
    [tree |-> IF found THEN [t EXCEPT !.cpllog = f.tag] ELSE t,
     frame |-> [f EXCEPT !.pc = "finish"]]

\* the record is written whatever the model is
BlessAppendMutant(log, model_name) ==
    [exists |-> TRUE, lines |-> Append(log.lines, BlessRecord)]

\* lines 494-498: the bless log after the call, opened with mode "a"
BlessAppend(log, model_name) ==
    IF model_name = "e3sm"
    THEN [exists |-> TRUE, lines |-> Append(log.lines, BlessRecord)]
    ELSE log

\* lines 488-500: the expect on num_gen, the bless log, the return; exempt
\* says that the test is PFS or TSC or has the option B
GenFinish(log, f, exempt, model_name) ==
    IF ~(f.num_gen > 0 \/ exempt)
    THEN [bless |-> log, frame |-> GenAborted(f, "no hist files")]
    ELSE [bless |-> BlessAppend(log, model_name),
          frame |-> [f EXCEPT !.pc = "exit", !.outcome = "ok",
                              !.get_model = model_name]]

\* lines 423-426: the directory is made and TestStatus copied into it; an
\* exception of the copy is caught outside the with statement
StatusCopy(t, f, fails) ==
    [tree |-> IF fails THEN [t EXCEPT !.dir = TRUE]
              ELSE [t EXCEPT !.dir = TRUE, !.teststatus = f.tag],
     frame |-> [f EXCEPT !.pc = "exit",
                         !.outcome = IF fails THEN "warning" ELSE "ok"]]

\* the area is left only when the call returns normally
LeaveMutant(holder, f) == IF f.outcome = "ok" THEN 0 ELSE holder

\* lines 422 and 503: the end of the with statement, reached by a return
\* and by an exception alike
Leave(holder, f) == 0

\* SharedArea, as the specification describes it: a lock on the shared
\* baseline area that one process holds at a time
CanEnter(holder) == holder = 0

\* the baseline directory before the first call: absent, empty, or with a
\* directory named as the case in it
InitialTrees ==
    { NoTree,
      [NoTree EXCEPT !.dir = TRUE],
      [NoTree EXCEPT !.dir = TRUE, !.casedir = TRUE] }

\* the history files of the run directory: cam.h0.nc and cpl.hi.nc
RunFiles ==
    { S_cam \o S_h0nc, S_cpl \o <<".", "h", "i">> \o S_dotnc }

\* ------------------------------------------------------------------------
\* copy_histfiles, rename_all_hist_files
\* ------------------------------------------------------------------------

\* "{}.{}".format(test_hist, suffix)
NewFile(test_hist, suffix) == test_hist \o <<".">> \o suffix

\* what the archive can list for a model: files of the run directory with
\* the name of the model in them
ListedFor(files, model) == {h \in files : Contains(h, model)}

\* a call of copy_histfiles or rename_all_hist_files at its first line
FilesFrame(op, files, tag, first_line) ==
    [files |-> files,
     frame |-> [NoCallFrame EXCEPT !.op = op, !.tag = tag, !.models = Models,
                                   !.comments = first_line]]

\* lines 63-86: the loop over the files of a model
RECURSIVE CopyHists(_, _, _)
CopyHists(acc, test_hists, suffix) ==
    IF test_hists = <<>> THEN acc
    ELSE CopyHists(
             IF ~EndsWith(Head(test_hists), S_dotnc) THEN acc
             ELSE [files |-> acc.files
                                \cup {NewFile(Head(test_hists), suffix)},
                   frame |-> [acc.frame EXCEPT !.comments =
                       acc.frame.comments
                           \o <<"    ", "Copying '", RunDir, "/">>
                           \o Head(test_hists) \o <<"' to '", RunDir, "/">>
                           \o NewFile(Head(test_hists), suffix)
                           \o <<"'", NL>>]],
             Tail(test_hists), suffix)

\* lines 113-121: the loop over the files of a model
RECURSIVE RenameHists(_, _, _)
RenameHists(acc, test_hists, suffix) ==
    IF test_hists = <<>> THEN acc
    ELSE RenameHists(
             [files |-> (acc.files \ {Head(test_hists)})
                            \cup {NewFile(Head(test_hists), suffix)},
              frame |-> [acc.frame EXCEPT !.comments =
                  acc.frame.comments
                      \o <<"    ", "Renaming '", RunDir, "/">>
                      \o Head(test_hists) \o <<"' to '", RunDir, "/">>
                      \o NewFile(Head(test_hists), suffix)
                      \o <<"'", NL>>]],
             Tail(test_hists), suffix)

\* lines 59-62 and 104-112: one turn of the loop over the models, up to the
\* loop over the files
FilesModel(acc, verb, test_hists) ==
    [files |-> acc.files,
     frame |-> [acc.frame EXCEPT
         !.model = Head(acc.frame.models),
         !.models = Tail(acc.frame.models),
         !.num_gen = acc.frame.num_gen + Len(test_hists),
         !.comments = acc.frame.comments
             \o <<"  ", verb, " hist files for model '">>
             \o Head(acc.frame.models) \o <<"'", NL>>]]

\* lines 88-90 and 123-125: the expect on the number of files, the return
FilesReturn(acc) ==
    [files |-> acc.files,
     frame |-> [acc.frame EXCEPT
         !.pc = "done",
         !.outcome = IF acc.frame.num_gen > 0 THEN "ok" ELSE "no hist files"]]

\* copy_histfiles(case, suffix), with the lists the archive gives for the
\* models
CopyHistfiles(files, tag, suffix, cam_hists, cpl_hists) ==
    FilesReturn(
        CopyHists(
            FilesModel(
                CopyHists(
                    FilesModel(
                        FilesFrame("copy_histfiles", files, tag,
                            <<"Copying hist files to suffix '">> \o suffix
                                \o <<"'", NL>>),
                        "Copying", cam_hists),
                    cam_hists, suffix),
                "Copying", cpl_hists),
            cpl_hists, suffix))

\* rename_all_hist_files(case, suffix), with the lists the archive gives for
\* the models
RenameAllHistFiles(files, tag, suffix, cam_hists, cpl_hists) ==
    FilesReturn(
        RenameHists(
            FilesModel(
                RenameHists(
                    FilesModel(
                        FilesFrame("rename_all_hist_files", files, tag,
                            <<"Renaming hist files by adding suffix '">>
                                \o suffix \o <<"'", NL>>),
                        "Renaming", cam_hists),
                    cam_hists, suffix),
                "Renaming", cpl_hists),
            cpl_hists, suffix))

\* ------------------------------------------------------------------------
\* Actions
\* ------------------------------------------------------------------------

\* the caller puts one more file name of the directory on the first list
AddHist1 ==
    /\ mres.status = "none"
    /\ Len(hists1) + Len(hists2) < MaxFiles
    /\ \E f \in HistPool \ Range(hists1) : hists1' = Append(hists1, f)
    /\ UNCHANGED <<gvars, hists2, suffix1, suffix2, mres, cvars, hvars, svars>>

\* the caller puts one more file name on the second list
AddHist2 ==
    /\ mres.status = "none"
    /\ Len(hists1) + Len(hists2) < MaxFiles
    /\ \E f \in HistPool \ Range(hists2) : hists2' = Append(hists2, f)
    /\ UNCHANGED <<gvars, hists1, suffix1, suffix2, mres, cvars, hvars, svars>>

\* the call _hists_match('cam', hists1, hists2, suffix1, suffix2)
CallHistsMatch ==
    /\ mres.status = "none"
    /\ mres' = HistsMatch(S_cam, hists1, hists2, suffix1, suffix2)
    /\ UNCHANGED <<gvars, hists1, hists2, suffix1, suffix2, cvars, hvars, svars>>

\* the call of cprnc, after run_cmd has returned cpr_stat and out
CallCprnc ==
    /\ cres.status = "none"
    /\ cres' = Cprnc(cin.cpr_stat, cin.out, cin.multiinst_driver_compare,
                     cin.ignore_fieldlist_diffs)
    /\ UNCHANGED <<gvars, cin, mvars, hvars, svars>>

\* compare_test(case, suffix1, suffix2, ignore_fieldlist_diffs), up to the
\* loop of _compare_hists
CompareTest ==
    /\ ch.pc = "idle"
    /\ \E testcase \in TestCases, s2 \in {S_base, S_rest, S_multiinst},
          ignore \in BOOLEAN :
          ch' = NewFrame("compare_test", testcase, RunDir, RunDir, S_base, s2,
                         ignore)
    /\ ret' = IF ch'.pc = "abort" THEN AbortReturn ELSE ret
    /\ UNCHANGED <<gvars, mvars, cvars, svars>>

\* compare_baseline(case, baseline_dir), up to its early return or to the
\* loop of _compare_hists
CompareBaseline ==
    /\ ch.pc = "idle"
    /\ \E testcase \in TestCases, baseline_dir \in {"None", "baseline_dir", RunDir} :
       \E existing \in DirStates(baseline_dir) :
          IF FirstMissing(DirsToCheck(baseline_dir), existing) # ""
          THEN /\ ch' = [NoFrame EXCEPT
                            !.pc = "done", !.op = "compare_baseline",
                            !.testcase = testcase,
                            !.baseline_dir = baseline_dir,
                            !.existing = existing]
               /\ ret' = Returns(FALSE, NoBaselineComment(
                             FirstMissing(DirsToCheck(baseline_dir), existing)))
          ELSE /\ ch' = [NewFrame("compare_baseline", testcase, RunDir,
                                  BaseCmpDirOf(baseline_dir), <<>>, <<>>, FALSE)
                            EXCEPT !.baseline_dir = baseline_dir,
                                   !.existing = existing]
               /\ ret' = IF ch'.pc = "abort" THEN AbortReturn ELSE ret
    /\ UNCHANGED <<gvars, mvars, cvars, svars>>

\* one turn of the loop over the models: the archive lists the files of the
\* model in the two directories, and they are matched
CompareModel ==
    /\ ch.pc = "loop"
    /\ ch.models # <<>>
    /\ \E l1 \in InjSeqs(DirPool(Head(ch.models)), ch.files_left) :
       \E l2 \in InjSeqs(DirPool(Head(ch.models)), ch.files_left - Len(l1)) :
          ch' = ModelStep(ch, WithSuffix(l1, ch.suffix1),
                          WithSuffix(l2, ch.suffix2))
    /\ ret' = IF ch'.pc = "abort" THEN AbortReturn ELSE ret
    /\ UNCHANGED <<gvars, mvars, cvars, svars>>

\* one turn of the loop over match_ups: the comparator is run on the pair
ComparePair ==
    /\ ch.pc = "pairs"
    /\ \E cpr_stat \in ExitStatuses, out \in CompareOuts :
          ch' = PairStep(ch, cpr_stat, out)
    /\ ret' = IF ch'.pc = "abort" THEN AbortReturn ELSE ret
    /\ UNCHANGED <<gvars, mvars, cvars, svars>>

\* the end of _compare_hists, and of compare_test or compare_baseline
CompareReturn ==
    /\ ch.pc = "loop"
    /\ ch.models = <<>>
    /\ ch' = [ch EXCEPT !.pc = "done"]
    /\ \E model_name \in {"e3sm", "cesm"} :
          ret' = Returns(CompareHistsReturn(ch).success,
                     CompareHistsReturn(ch).comments
                         \o (IF ch.op = "compare_baseline"
                             THEN BlessComment(model_name, bless)
                             ELSE <<>>))
    /\ UNCHANGED <<gvars, mvars, cvars, svars>>

\* the caller reduces the comments an operation returned:
\* get_ts_synopsis(comments)
CallGetTsSynopsisOnReturn ==
    /\ ch.pc = "done"
    /\ ret.status = "ok"
    /\ synopsis.status = "none"
    /\ blob' = ret.comments
    /\ synopsis' = [status |-> "ok", value |-> GetTsSynopsis(ret.comments)]
    /\ UNCHANGED <<gvars, mvars, cvars, hvars>>

\* the text is empty or ends with a line break
AtLineStart(text) == IF text = <<>> THEN TRUE ELSE text[Len(text)] = NL

\* the caller adds a line to the comment blob
AddLine ==
    /\ synopsis.status = "none"
    /\ AtLineStart(blob)
    /\ Len(SplitLines(blob)) < MaxLines
    /\ \E line \in CommentLines : blob' = blob \o line \o <<NL>>
    /\ UNCHANGED <<gvars, synopsis, mvars, cvars, hvars>>

\* the caller ends the comment blob with a line that has no line break
AddLastLine ==
    /\ synopsis.status = "none"
    /\ AtLineStart(blob)
    /\ Len(SplitLines(blob)) < MaxLines
    /\ \E line \in CommentLines \ {<<>>} : blob' = blob \o line
    /\ UNCHANGED <<gvars, synopsis, mvars, cvars, hvars>>

\* the call get_ts_synopsis(comments)
CallGetTsSynopsis ==
    /\ synopsis.status = "none"
    /\ synopsis' = [status |-> "ok", value |-> GetTsSynopsis(blob)]
    /\ UNCHANGED <<gvars, blob, mvars, cvars, hvars>>

\* process p calls generate_baseline(case, baseline_dir,
\* allow_baseline_overwrite)
GenerateBaseline(p) ==
    /\ gen[p].pc \in {"idle", "done"}
    /\ ncalls < MaxCalls
    /\ \E allow \in BOOLEAN :
          gen' = [gen EXCEPT ![p] = GenFrame(allow, ncalls + 1)]
    /\ ncalls' = ncalls + 1
    /\ UNCHANGED <<tree, bless, rundir, lock, mvars, cvars, hvars, svars>>

\* process p calls generate_teststatus(testdir, baseline_dir)
GenerateTeststatus(p) ==
    /\ gen[p].pc \in {"idle", "done"}
    /\ ncalls < MaxCalls
    /\ \E model_name \in {"e3sm", "cesm"} :
          gen' = [gen EXCEPT ![p] = StatusFrame(model_name, ncalls + 1)]
    /\ ncalls' = ncalls + 1
    /\ UNCHANGED <<tree, bless, rundir, lock, mvars, cvars, hvars, svars>>

\* with SharedArea(): process p enters
EnterSharedArea(p) ==
    /\ gen[p].pc = "enter"
    /\ CanEnter(lock)
    /\ lock' = p
    /\ gen' = [gen EXCEPT ![p].pc = IF gen[p].op = "generate_baseline"
                                    THEN "makedirs" ELSE "status"]
    /\ UNCHANGED <<tree, bless, rundir, ncalls, mvars, cvars, hvars, svars>>

\* lines 450-457
GenerateMakeDirs(p) ==
    /\ gen[p].pc = "makedirs"
    /\ tree' = GenMakeDirs(tree, gen[p]).tree
    /\ gen' = [gen EXCEPT ![p] = GenMakeDirs(tree, gen[p]).frame]
    /\ UNCHANGED <<bless, rundir, lock, ncalls, mvars, cvars, hvars, svars>>

\* lines 459-464: the archive lists files of the run directory
GenerateModel(p) ==
    /\ gen[p].pc = "models"
    /\ \E hists \in InjSeqs(rundir, MaxGenFiles - gen[p].num_gen) :
          gen' = [gen EXCEPT ![p] = GenModel(gen[p], hists)]
    /\ UNCHANGED <<tree, bless, rundir, lock, ncalls, mvars, cvars, hvars,
                   svars>>

\* lines 465-473
GenerateHist(p) ==
    /\ gen[p].pc = "hist"
    /\ tree' = GenHist(tree, gen[p]).tree
    /\ gen' = [gen EXCEPT ![p] = GenHist(tree, gen[p]).frame]
    /\ UNCHANGED <<bless, rundir, lock, ncalls, mvars, cvars, hvars, svars>>

\* lines 477-486
GenerateCplLog(p) ==
    /\ gen[p].pc = "cpllog"
    /\ \E found \in BOOLEAN :
          /\ tree' = GenCplLog(tree, gen[p], found).tree
          /\ gen' = [gen EXCEPT ![p] = GenCplLog(tree, gen[p], found).frame]
    /\ UNCHANGED <<bless, rundir, lock, ncalls, mvars, cvars, hvars, svars>>

\* lines 488-500
GenerateFinish(p) ==
    /\ gen[p].pc = "finish"
    /\ \E exempt \in BOOLEAN, model_name \in {"e3sm", "cesm"} :
          /\ bless' = GenFinish(bless, gen[p], exempt, model_name).bless
          /\ gen' = [gen EXCEPT
                        ![p] = GenFinish(bless, gen[p], exempt, model_name).frame]
    /\ UNCHANGED <<tree, rundir, lock, ncalls, mvars, cvars, hvars, svars>>

\* lines 423-426 of generate_teststatus
StatusCopyStep(p) ==
    /\ gen[p].pc = "status"
    /\ \E fails \in BOOLEAN :
          /\ tree' = StatusCopy(tree, gen[p], fails).tree
          /\ gen' = [gen EXCEPT ![p] = StatusCopy(tree, gen[p], fails).frame]
    /\ UNCHANGED <<bless, rundir, lock, ncalls, mvars, cvars, hvars, svars>>

\* the end of the with statement: process p leaves SharedArea, and the call
\* returns or its exception goes on
LeaveSharedArea(p) ==
    /\ gen[p].pc = "exit"
    /\ lock' = Leave(lock, gen[p])
    /\ gen' = [gen EXCEPT ![p].pc = "done"]
    /\ UNCHANGED <<tree, bless, rundir, ncalls, mvars, cvars, hvars, svars>>

\* process p calls copy_histfiles(case, 'base')
CallCopyHistfiles(p) ==
    /\ gen[p].pc \in {"idle", "done"}
    /\ ncalls < MaxCalls
    /\ \E cam_hists \in InjSeqs(ListedFor(rundir, S_cam), MaxGenFiles) :
       \E cpl_hists \in InjSeqs(ListedFor(rundir, S_cpl),
                                MaxGenFiles - Len(cam_hists)) :
          /\ rundir' = CopyHistfiles(rundir, ncalls + 1, S_base, cam_hists,
                                     cpl_hists).files
          /\ gen' = [gen EXCEPT ![p] =
                        CopyHistfiles(rundir, ncalls + 1, S_base, cam_hists,
                                      cpl_hists).frame]
    /\ ncalls' = ncalls + 1
    /\ UNCHANGED <<tree, bless, lock, mvars, cvars, hvars, svars>>

\* process p calls rename_all_hist_files(case, 'base')
CallRenameAllHistFiles(p) ==
    /\ gen[p].pc \in {"idle", "done"}
    /\ ncalls < MaxCalls
    /\ \E cam_hists \in InjSeqs(ListedFor(rundir, S_cam), MaxGenFiles) :
       \E cpl_hists \in InjSeqs(ListedFor(rundir, S_cpl),
                                MaxGenFiles - Len(cam_hists)) :
          /\ rundir' = RenameAllHistFiles(rundir, ncalls + 1, S_base,
                                          cam_hists, cpl_hists).files
          /\ gen' = [gen EXCEPT ![p] =
                        RenameAllHistFiles(rundir, ncalls + 1, S_base,
                                           cam_hists, cpl_hists).frame]
    /\ ncalls' = ncalls + 1
    /\ UNCHANGED <<tree, bless, lock, mvars, cvars, hvars, svars>>

\* compare_test or compare_baseline has returned or aborted: its caller goes
\* on to the next call
ReturnToCaller ==
    /\ ch.pc \in {"done", "abort"}
    /\ ch' = NoFrame
    /\ ret' = NoReturn
    /\ ncalls' = ncalls + 1
    /\ UNCHANGED <<tree, bless, rundir, lock, gen, mvars, cvars, svars>>

\* ------------------------------------------------------------------------
\* Specifications: one per operation under study, the others at rest
\* ------------------------------------------------------------------------

MatchInit ==
    /\ hists1 = <<>>
    /\ hists2 = <<>>
    /\ suffix1 \in SuffixPool
    /\ suffix2 \in SuffixPool
    /\ mres = NoCall
    /\ cin = NoCprncRun
    /\ cres = CprncNoCall
    /\ ch = NoFrame
    /\ ret = NoReturn
    /\ blob = <<>>
    /\ synopsis = NoSynopsis
    /\ tree = NoTree
    /\ bless = NoBlessLog
    /\ rundir = {}
    /\ lock = 0
    /\ gen = NoCalls
    /\ ncalls = 0

MatchNext == AddHist1 \/ AddHist2 \/ CallHistsMatch

SpecMatch == MatchInit /\ [][MatchNext]_vars

CprncInit ==
    /\ hists1 = <<>>
    /\ hists2 = <<>>
    /\ suffix1 = <<>>
    /\ suffix2 = <<>>
    /\ mres = NoCall
    /\ cin \in CprncRuns
    /\ cres = CprncNoCall
    /\ ch = NoFrame
    /\ ret = NoReturn
    /\ blob = <<>>
    /\ synopsis = NoSynopsis
    /\ tree = NoTree
    /\ bless = NoBlessLog
    /\ rundir = {}
    /\ lock = 0
    /\ gen = NoCalls
    /\ ncalls = 0

CprncNext == CallCprnc

SpecCprnc == CprncInit /\ [][CprncNext]_vars

CompareInit ==
    /\ hists1 = <<>>
    /\ hists2 = <<>>
    /\ suffix1 = <<>>
    /\ suffix2 = <<>>
    /\ mres = NoCall
    /\ cin = NoCprncRun
    /\ cres = CprncNoCall
    /\ ch = NoFrame
    /\ ret = NoReturn
    /\ blob = <<>>
    /\ synopsis = NoSynopsis
    /\ tree = NoTree
    /\ bless \in BlessLogs
    /\ rundir = {}
    /\ lock = 0
    /\ gen = NoCalls
    /\ ncalls = 0

CompareNext ==
    CompareTest \/ CompareBaseline \/ CompareModel \/ ComparePair
        \/ CompareReturn

SpecCompare == CompareInit /\ [][CompareNext]_vars

\* a comparison, and the synopsis of the comments it returns
ReportNext ==
    CompareTest \/ CompareBaseline \/ CompareModel \/ ComparePair
        \/ CompareReturn \/ CallGetTsSynopsisOnReturn

SpecReport == CompareInit /\ [][ReportNext]_vars

\* processes that run generate_baseline and generate_teststatus on one
\* baseline directory at the same time
SharedInit ==
    /\ hists1 = <<>>
    /\ hists2 = <<>>
    /\ suffix1 = <<>>
    /\ suffix2 = <<>>
    /\ mres = NoCall
    /\ cin = NoCprncRun
    /\ cres = CprncNoCall
    /\ ch = NoFrame
    /\ ret = NoReturn
    /\ blob = <<>>
    /\ synopsis = NoSynopsis
    /\ tree \in InitialTrees
    /\ bless = NoBlessLog
    /\ rundir = RunFiles
    /\ lock = 0
    /\ gen = NoCalls
    /\ ncalls = 0

ProcNext(p) ==
    \/ GenerateBaseline(p)
    \/ GenerateTeststatus(p)
    \/ EnterSharedArea(p)
    \/ GenerateMakeDirs(p)
    \/ GenerateModel(p)
    \/ GenerateHist(p)
    \/ GenerateCplLog(p)
    \/ GenerateFinish(p)
    \/ StatusCopyStep(p)
    \/ LeaveSharedArea(p)

SharedNext == \E p \in Procs : ProcNext(p)

\* every process that can take a step takes one in the end
SpecShared ==
    SharedInit /\ [][SharedNext]_vars /\ \A p \in Procs : WF_vars(ProcNext(p))

\* one caller that calls generate_baseline, generate_teststatus,
\* compare_baseline, copy_histfiles and rename_all_hist_files one after the
\* other on one baseline directory
BaselineInit ==
    /\ hists1 = <<>>
    /\ hists2 = <<>>
    /\ suffix1 = <<>>
    /\ suffix2 = <<>>
    /\ mres = NoCall
    /\ cin = NoCprncRun
    /\ cres = CprncNoCall
    /\ ch = NoFrame
    /\ ret = NoReturn
    /\ blob = <<>>
    /\ synopsis = NoSynopsis
    /\ tree = NoTree
    /\ bless = NoBlessLog
    /\ rundir = RunFiles
    /\ lock = 0
    /\ gen = NoCalls
    /\ ncalls = 0

\* a call begins when the call before it has returned
BaselineNext ==
    \/ (ch.pc = "idle" /\ GenerateBaseline(1))
    \/ (ch.pc = "idle" /\ GenerateTeststatus(1))
    \/ (ch.pc = "idle" /\ CallCopyHistfiles(1))
    \/ (ch.pc = "idle" /\ CallRenameAllHistFiles(1))
    \/ (gen[1].pc \in {"idle", "done"} /\ ncalls < MaxCalls /\ CompareBaseline)
    \/ EnterSharedArea(1)
    \/ GenerateMakeDirs(1)
    \/ GenerateModel(1)
    \/ GenerateHist(1)
    \/ GenerateCplLog(1)
    \/ GenerateFinish(1)
    \/ StatusCopyStep(1)
    \/ LeaveSharedArea(1)
    \/ CompareModel
    \/ ComparePair
    \/ CompareReturn
    \/ ReturnToCaller

SpecBaseline == BaselineInit /\ [][BaselineNext]_vars

SynopsisInit ==
    /\ hists1 = <<>>
    /\ hists2 = <<>>
    /\ suffix1 = <<>>
    /\ suffix2 = <<>>
    /\ mres = NoCall
    /\ cin = NoCprncRun
    /\ cres = CprncNoCall
    /\ ch = NoFrame
    /\ ret = NoReturn
    /\ blob = <<>>
    /\ synopsis = NoSynopsis
    /\ tree = NoTree
    /\ bless = NoBlessLog
    /\ rundir = {}
    /\ lock = 0
    /\ gen = NoCalls
    /\ ncalls = 0

SynopsisNext == AddLine \/ AddLastLine \/ CallGetTsSynopsis

SpecSynopsis == SynopsisInit /\ [][SynopsisNext]_vars

\* ------------------------------------------------------------------------
\* Properties of _hists_match
\* ------------------------------------------------------------------------

Called == mres.status # "none"

Returned == mres.status = "ok"

\* every file holds the model tag and ends with its list's suffix
WellNamed ==
    /\ \A i \in 1..Len(hists1) : NormalizedName(S_cam, hists1[i], suffix1).ok
    /\ \A i \in 1..Len(hists2) : NormalizedName(S_cam, hists2[i], suffix2).ok

keys1 == Normalized(S_cam, hists1, suffix1)

keys2 == Normalized(S_cam, hists2, suffix2)

IsInstance(k) == MultiSearch(k).matched

Stripped(k) == MultiSearch(k).stripped

DistinctKeys(keys) ==
    \A i, j \in 1..Len(keys) : keys[i] = keys[j] => i = j

KeysDisjoint == Range(keys1) \cap Range(keys2) = {}

\* no key of one side, with its instance index removed, is a key of the other
StrippedDisjoint ==
    /\ \A k \in Range(keys1) : IsInstance(k) => Stripped(k) \notin Range(keys2)
    /\ \A k \in Range(keys2) : IsInstance(k) => Stripped(k) \notin Range(keys1)

SameFiles(list, files) ==
    Range(list) = Range(files) /\ Len(list) = Len(files)

\* C1 as stated: lists with disjoint normalized keys give no pairs and leave
\* every file of A in onlyInA and every file of B in onlyInB.
C1_DisjointAsStated ==
    (Called /\ WellNamed /\ KeysDisjoint) =>
        /\ Returned
        /\ mres.match_ups = <<>>
        /\ Range(mres.one_not_two) = Range(hists1)
        /\ Range(mres.two_not_one) = Range(hists2)

\* C1 (amended): lists of well-named files whose normalized keys are pairwise
\* distinct within each list, disjoint between the lists, and still disjoint
\* when the instance index of a key is removed, give no pairs, onlyInA
\* exactly the files of A and onlyInB exactly the files of B.
C1_Disjoint ==
    (/\ Called
     /\ WellNamed
     /\ KeysDisjoint
     /\ StrippedDisjoint
     /\ DistinctKeys(keys1)
     /\ DistinctKeys(keys2)) =>
        /\ Returned
        /\ mres.match_ups = <<>>
        /\ SameFiles(mres.one_not_two, hists1)
        /\ SameFiles(mres.two_not_one, hists2)

\* C1's case: a call on two non-empty lists with disjoint keys, one of them
\* holding an instance file
C1_Witness ==
    /\ Returned
    /\ WellNamed
    /\ KeysDisjoint
    /\ StrippedDisjoint
    /\ DistinctKeys(keys1)
    /\ DistinctKeys(keys2)
    /\ Len(hists1) >= 2
    /\ Len(hists2) >= 1
    /\ \E k \in Range(keys1) : IsInstance(k)

SelfCall == hists2 = hists1 /\ suffix2 = suffix1

CoversSelf ==
    /\ \A i \in 1..Len(hists1) : <<hists1[i], hists1[i]>> \in Range(mres.match_ups)
    /\ \A p \in Range(mres.match_ups) : p[1] = p[2]
    /\ mres.one_not_two = <<>>
    /\ mres.two_not_one = <<>>

\* C2 as stated: a list of files that hold the model tag and the suffix,
\* matched against itself, returns normally with every file paired with
\* itself and nothing left over.
C2_SelfAsStated == (Called /\ SelfCall /\ WellNamed) => (Returned /\ CoversSelf)

\* C2 (amended): a list of well-named files with pairwise distinct
\* normalized keys, matched against itself with the same suffix, returns
\* normally with every file paired with itself and nothing left over.
C2_Self ==
    (Called /\ SelfCall /\ WellNamed /\ DistinctKeys(keys1)) =>
        (Returned /\ CoversSelf)

\* C2's case: two files, one of them an instance file, against themselves
C2_Witness ==
    /\ Returned
    /\ SelfCall
    /\ DistinctKeys(keys1)
    /\ Len(hists1) = 2
    /\ \E k \in Range(keys1) : IsInstance(k)
    /\ \E k \in Range(keys1) : ~IsInstance(k)

\* every instance file of the list `mine` is paired with every file of the
\* list `other` that has its stripped key, and neither is left over
Reconciled(mine, mykeys, other, otherkeys, first) ==
    \A i \in 1..Len(mine) : \A j \in 1..Len(other) :
        (IsInstance(mykeys[i]) /\ Stripped(mykeys[i]) = otherkeys[j]) =>
            /\ (IF first THEN <<mine[i], other[j]>> ELSE <<other[j], mine[i]>>)
                   \in Range(mres.match_ups)
            /\ mine[i] \notin Range(IF first THEN mres.one_not_two
                                    ELSE mres.two_not_one)
            /\ other[j] \notin Range(IF first THEN mres.two_not_one
                                     ELSE mres.one_not_two)

StrippedKeys(keys) == {Stripped(k) : k \in {x \in Range(keys) : IsInstance(x)}}

\* C3: when the instance-stripped keys of one side are the key set of the
\* other side, every instance file is paired with the other side's file of
\* its stripped key and neither stays among the leftovers, whichever side is
\* the multi-instance one and whatever the order and mix of the lists.
C3_Reconciliation ==
    /\ (Returned /\ StrippedKeys(keys1) # {}
                 /\ StrippedKeys(keys1) = Range(keys2)) =>
           Reconciled(hists1, keys1, hists2, keys2, TRUE)
    /\ (Returned /\ StrippedKeys(keys2) # {}
                 /\ StrippedKeys(keys2) = Range(keys1)) =>
           Reconciled(hists2, keys2, hists1, keys1, FALSE)

PairsWithFirst(f) ==
    Cardinality({k \in 1..Len(mres.match_ups) : mres.match_ups[k][1] = f})

PairsWithSecond(f) ==
    Cardinality({k \in 1..Len(mres.match_ups) : mres.match_ups[k][2] = f})

NoInstanceKey == \A k \in Range(keys1) \cup Range(keys2) : ~IsInstance(k)

\* C4: with no instance key on either side, a returned result accounts for
\* each input file exactly once (left over, or in exactly one pair), so that
\* |pairs| + |onlyInA| = |A| and |pairs| + |onlyInB| = |B|; an input whose
\* keys cannot be counted that way (two files of one list share a key)
\* aborts instead of returning.
C4_Accounting ==
    /\ (Returned /\ NoInstanceKey) =>
          /\ \A i \in 1..Len(hists1) :
                IF hists1[i] \in Range(mres.one_not_two)
                THEN PairsWithFirst(hists1[i]) = 0
                ELSE PairsWithFirst(hists1[i]) = 1
          /\ \A i \in 1..Len(hists2) :
                IF hists2[i] \in Range(mres.two_not_one)
                THEN PairsWithSecond(hists2[i]) = 0
                ELSE PairsWithSecond(hists2[i]) = 1
          /\ Len(mres.match_ups) + Len(mres.one_not_two) = Len(hists1)
          /\ Len(mres.match_ups) + Len(mres.two_not_one) = Len(hists2)
    /\ (Called /\ WellNamed /\ NoInstanceKey
           /\ ~(DistinctKeys(keys1) /\ DistinctKeys(keys2))) =>
          mres.status = "abort"

\* C4's case: a returned result with a pair and a leftover on each side
C4_Witness ==
    /\ Returned
    /\ NoInstanceKey
    /\ Len(mres.match_ups) >= 1
    /\ Len(mres.one_not_two) >= 1
    /\ Len(mres.two_not_one) >= 1

\* ------------------------------------------------------------------------
\* Properties of cprnc
\* ------------------------------------------------------------------------

CprncCalled == cres.status # "none"

NoNote == cres.comment = <<>>

Has(string) == InOut(string, cin.out)

\* the verdict of the three summary phrases, the first of which is
\* `identical`, the third `fieldlist`
PhraseVerdict(identical, different, fieldlist) ==
    IF Has(identical)
    THEN cres.status = "ok" /\ cres.files_match /\ NoNote
    ELSE IF Has(different)
    THEN cres.status = "ok" /\ ~cres.files_match /\ NoNote
    ELSE IF Has(fieldlist)
    THEN /\ cres.status = "ok"
         /\ cres.files_match = cin.ignore_fieldlist_diffs
         /\ (cres.comment = CPRNC_FIELDLISTS_DIFFER) = ~cres.files_match
         /\ cres.files_match => NoNote
    ELSE cres.status = "abort"

Classified(zero, identical, different, fieldlist) ==
    CprncCalled =>
        IF cin.cpr_stat # 0
        THEN cres.status = "ok" /\ ~cres.files_match /\ NoNote
        ELSE IF cin.multiinst_driver_compare
        THEN cres.status = "ok" /\ cres.files_match = Has(zero) /\ NoNote
        ELSE PhraseVerdict(identical, different, fieldlist)

\* C5 as stated: the classification with the phrases '0 had non-zero
\* differences', 'files seem to be IDENTICAL', 'the two files seem to be
\* DIFFERENT' and 'DIFFER only in their field lists'.
C5_ClassifiedAsStated ==
    Classified(<<"0", " had non-zero differences">>,
               <<"files ", "seem to be ", "IDENTICAL">>,
               <<"the two ", "files ", "seem to be ", "DIFFERENT">>,
               <<"DIFFER only in their field lists">>)

\* C5 (amended): a non-zero exit gives matched=false and no note; exit 0 with
\* the coupler flag gives matched exactly when the output holds
\* ' 0 had non-zero differences', the blank included, and no note; exit 0
\* without the flag gives matched for 'files seem to be IDENTICAL', else not
\* matched for 'the two files seem to be DIFFERENT', else for 'the two files
\* DIFFER only in their field lists' matched=ignoreFieldListDiffs with the
\* note FieldListsDiffer exactly when not matched, else a fatal error.
C5_Classified ==
    Classified(<<" ", "0", " had non-zero differences">>,
               <<"files ", "seem to be ", "IDENTICAL">>,
               <<"the two ", "files ", "seem to be ", "DIFFERENT">>,
               <<"the two ", "files ", "DIFFER only in their field lists">>)

\* C5's case: a failed comparator run whose output says IDENTICAL
C5_Witness ==
    /\ CprncCalled
    /\ cin.cpr_stat # 0
    /\ Has(<<"files ", "seem to be ", "IDENTICAL">>)
    /\ ~cres.files_match

\* ------------------------------------------------------------------------
\* Properties of _compare_hists, compare_test and compare_baseline
\* ------------------------------------------------------------------------

\* the operation has returned
CompareReturned == ch.pc = "done" /\ ret.status = "ok"

\* the operation has returned from _compare_hists
ComparedHists == CompareReturned /\ ch.from_dir1 # ""

\* the lines of the returned comments
RetLines == SplitLines(ret.comments)

\* C6: when _compare_hists ends with the comparator run for no pair of files
\* and the test is no PFS test, the returned success is false and the
\* comments hold the line 'Did not compare any hist files! Missing
\* baselines?'.
C6_NothingCompared ==
    (ComparedHists /\ ch.n_cprnc = 0 /\ ch.testcase # "PFS") =>
        /\ ~ret.success
        /\ \E i \in 1..Len(RetLines) :
              RetLines[i] = <<"Did not compare any hist files! Missing baselines?">>

\* the closing token of the returned success flag
Token == IF ret.success THEN <<"PASS">> ELSE <<"FAIL">>

\* C7 as stated: the last line of the comments of every operation that
\* returns is exactly PASS or FAIL, and PASS exactly when success is true.
C7_FinalLineAsStated ==
    CompareReturned =>
        /\ RetLines # <<>>
        /\ RetLines[Len(RetLines)] = Token

\* the directories compare_baseline needs: the one given, or the baseline
\* root and the directory of the case in it
NeededDirs ==
    IF ch.baseline_dir = "None" THEN {"baselineroot", "baselineroot/basecmp_case"}
    ELSE {ch.baseline_dir}

\* the comments are the one line of a directory that does not exist
MissingDirOnly ==
    \E d \in NeededDirs \ ch.existing :
        ret.comments = <<"ERROR ", "BFAIL", " baseline directory '", d,
                         "' does not exist">>

\* the line before the last is the token and the last names the last bless
TokenThenBless ==
    /\ Len(RetLines) >= 2
    /\ RetLines[Len(RetLines) - 1] = Token
    /\ SubSeq(RetLines[Len(RetLines)], 1, 2) = <<"  ", "Most recent bless: ">>

\* C7 (amended): the comments that _compare_hists and compare_test return
\* end with the line PASS or FAIL, PASS exactly when success is true; those
\* of compare_baseline either end with that line, or with that line and one
\* 'Most recent bless' line after it, or are, with success false, the one
\* line that says that a baseline directory does not exist.
C7_FinalLine ==
    CompareReturned =>
        IF ch.op = "compare_test"
        THEN RetLines # <<>> /\ RetLines[Len(RetLines)] = Token
        ELSE IF NeededDirs \subseteq ch.existing
        THEN /\ RetLines # <<>>
             /\ RetLines[Len(RetLines)] = Token \/ TokenThenBless
        ELSE ~ret.success /\ MissingDirOnly

\* C7's case: a comparison in which nothing could be compared has failed
\* although no file was missing or different
C7_Witness ==
    /\ ComparedHists
    /\ ch.all_success
    /\ ~ret.success
    /\ RetLines[Len(RetLines)] = <<"FAIL">>

\* C8: compare_baseline, called while the baseline directory (or, when none
\* is given, the baseline root or the directory of the case in it) does not
\* exist, returns success false and a comment that says that the baseline
\* directory does not exist, without a list of history files fetched and
\* without a run of the comparator.
C8_MissingBaseline ==
    (ch.op = "compare_baseline" /\ ~(NeededDirs \subseteq ch.existing)) =>
        /\ CompareReturned
        /\ ~ret.success
        /\ \E d \in NeededDirs \ ch.existing :
              Contains(ret.comments,
                       <<" baseline directory '", d, "' does not exist">>)
        /\ ch.n_fetch = 0
        /\ ch.n_cprnc = 0

\* C8's case: the baseline root exists, the directory of the case in it
\* does not, and compare_baseline has returned
C8_Witness ==
    /\ CompareReturned
    /\ ch.op = "compare_baseline"
    /\ ch.baseline_dir = "None"
    /\ ch.existing = {"baselineroot"}

\* ------------------------------------------------------------------------
\* Properties of get_ts_synopsis
\* ------------------------------------------------------------------------

SynopsisCalled == synopsis.status = "ok"

\* some line of the blob holds the marker
BlobHas(marker) ==
    \E i \in 1..Len(SplitLines(blob)) : Contains(SplitLines(blob)[i], marker)

\* the blob holds one of the two markers of a real difference
RealMarker ==
    BlobHas(<<"did NOT match">>) \/ BlobHas(<<"had no original counterpart">>)

FieldlistMarker == BlobHas(<<"had a different field list from">>)

MissingMarker == BlobHas(<<"had no compare counterpart">>)

\* the blob, without the white space around it, spans more than one line
SeveralLines == NL \in Range(Strip(blob))

\* C9 as stated: a blob that holds a real-difference marker gives 'DIFF'.
C9_DiffAsStated ==
    (SynopsisCalled /\ RealMarker) => synopsis.value = <<"DIFF">>

\* C9 (amended): a blob that spans more than one line once the white space
\* around it is removed, and that holds a real-difference marker ('did NOT
\* match' or 'had no original counterpart'), gives exactly 'DIFF', whatever
\* other markers it holds.
C9_Diff ==
    (SynopsisCalled /\ SeveralLines /\ RealMarker) =>
        synopsis.value = <<"DIFF">>

\* C9's case: 'had no original counterpart' is the only real-difference
\* marker of a blob of several lines, next to the two other markers
C9_Witness ==
    /\ SynopsisCalled
    /\ SeveralLines
    /\ BlobHas(<<"had no original counterpart">>)
    /\ ~BlobHas(<<"did NOT match">>)
    /\ FieldlistMarker
    /\ MissingMarker
    /\ synopsis.value = <<"DIFF">>

\* the synopsis the claim gives for the two other markers
FlagSynopsis ==
    IF FieldlistMarker /\ MissingMarker
    THEN <<"MULTIPLE ISSUES: field lists differ and some baseline files were missing">>
    ELSE IF FieldlistMarker
    THEN <<"FIELDLIST field lists differ (otherwise bit-for-bit)">>
    ELSE IF MissingMarker
    THEN <<"ERROR ", "BFAIL", " some baseline files were missing">>
    ELSE <<>>

\* the lines, each followed by a line break
RECURSIVE JoinLines(_)
JoinLines(lines) ==
    IF lines = <<>> THEN <<>>
    ELSE Head(lines) \o <<NL>> \o JoinLines(Tail(lines))

\* the blobs that hold the lines of the blob in another order, with and
\* without the line break after the last line
Reordered ==
    LET lines == SplitLines(blob)
        n == Len(lines)
        perms == {p \in [1..n -> 1..n] : \A i, j \in 1..n : p[i] = p[j] => i = j}
        joined == {JoinLines([i \in 1..n |-> lines[p[i]]]) : p \in perms}
    IN  joined \cup {SubSeq(t, 1, Len(t) - 1) :
                        t \in {u \in joined : Len(u) > 1 /\ u[Len(u) - 1] # NL}}

OrderIndependent ==
    \A text \in Reordered : GetTsSynopsis(text) = synopsis.value

\* C10 as stated: the empty string for the empty blob, the trimmed line for a
\* blob of one line, with or without a line break after it, and for a blob
\* of more lines with no real-difference marker the message of its markers;
\* the order of the lines does not matter.
C10_SynopsisAsStated ==
    SynopsisCalled =>
        /\ blob = <<>> => synopsis.value = <<>>
        /\ Len(SplitLines(blob)) = 1 => synopsis.value = Strip(blob)
        /\ (Len(SplitLines(blob)) > 1 /\ ~RealMarker) =>
               synopsis.value = FlagSynopsis
        /\ OrderIndependent

\* C10 (amended): the empty string for the empty blob; the trimmed blob for
\* a blob that is one line once the white space around it, blank lines
\* included, is removed; and for a blob that still spans several lines and
\* holds no real-difference marker, the 'MULTIPLE ISSUES' message when a
\* field-list line and a missing-compare-counterpart line occur, the
\* 'FIELDLIST' message when only field-list lines occur, the 'ERROR BFAIL'
\* message when only missing-counterpart lines occur, and the empty string
\* when neither occurs; the order of the lines does not matter.
C10_Synopsis ==
    SynopsisCalled =>
        /\ blob = <<>> => synopsis.value = <<>>
        /\ (blob # <<>> /\ ~SeveralLines) => synopsis.value = Strip(blob)
        /\ (SeveralLines /\ ~RealMarker) => synopsis.value = FlagSynopsis
        /\ OrderIndependent

\* C10's case: a blob of several lines with both markers and no real
\* difference, the missing-counterpart line first
C10_Witness ==
    /\ SynopsisCalled
    /\ Len(SplitLines(blob)) = 3
    /\ Contains(SplitLines(blob)[1], <<"had no compare counterpart">>)
    /\ Contains(SplitLines(blob)[2], <<"had a different field list from">>)
    /\ ~RealMarker
    /\ synopsis.value =
           <<"MULTIPLE ISSUES: field lists differ and some baseline files were missing">>

\* ------------------------------------------------------------------------
\* Properties of the success flag of _compare_hists
\* ------------------------------------------------------------------------

\* the flag is true when the loop over the models begins
StartsTrue == (ch.pc = "loop" /\ ch.n_fetch = 0) => ch.all_success

\* a step of the batch does not set a false flag back to true
OnlyAnded == (ch.pc # "idle" /\ ~ch.all_success) => ~ch'.all_success

\* the returned flag is true exactly when every pair handed to the
\* comparator matched, no file was reported without a counterpart, and the
\* comparator ran for a pair or the test is a PFS test
ExactlyWhenCompared ==
    ComparedHists =>
        (ret.success <=>
            /\ ch.n_mismatch = 0
            /\ ch.n_missing = 0
            /\ (ch.n_cprnc > 0 \/ ch.testcase = "PFS"))

\* C14: the success flag of _compare_hists starts true and is only ever
\* ANDed, and the returned value is true exactly when every pair handed to
\* the comparator matched, no file without a counterpart was found (files
\* with 'initial' in their name do not count), and at least one pair was
\* compared or the test kind is exempt.
C14_SuccessFlag ==
    [](StartsTrue /\ ExactlyWhenCompared) /\ [][OnlyAnded]_vars

\* ------------------------------------------------------------------------
\* Properties of the synopsis of returned comments
\* ------------------------------------------------------------------------

\* the comments of a returned comparison have been reduced
Reduced == CompareReturned /\ synopsis.status = "ok" /\ blob = ret.comments

\* C15: for every (success, comments) returned by _compare_hists or
\* compare_baseline with success false, get_ts_synopsis(comments) is not
\* empty.
C15_FailureHasSynopsis ==
    (Reduced /\ ~ret.success) => synopsis.value # <<>>

\* ------------------------------------------------------------------------
\* Properties of generate_baseline and generate_teststatus under SharedArea
\* ------------------------------------------------------------------------

\* process p is between the beginning and the end of its with statement
Inside(p) ==
    gen[p].pc \in {"makedirs", "models", "hist", "cpllog", "finish", "status",
                   "exit"}

\* process p waits to enter SharedArea
Waiting(p) == gen[p].pc = "enter"

\* one process at a time is inside, and it holds the lock
OneInside ==
    \A p \in Procs :
        Inside(p) => (lock = p /\ \A q \in Procs \ {p} : ~Inside(q))

\* a call that is over, however it ended, holds no lock
ReleasedOnExit ==
    \A p \in Procs : gen[p].pc \in {"idle", "done"} => lock # p

\* a step that changes the baseline directory or its bless log is a step of
\* the process that holds the lock, and of no other
MutationUnderLock ==
    (tree' # tree \/ bless' # bless) =>
        \E p \in Procs :
            /\ lock = p
            /\ gen'[p] # gen[p]
            /\ \A q \in Procs \ {p} : gen'[q] = gen[q]

\* C13: every mutation of the baseline tree by generate_baseline and
\* generate_teststatus happens while the calling process holds the lock of
\* the shared area, one process at a time holds it, it is released on every
\* way out, the fatal aborts included, and a process that waits for it
\* gets it in the end.
C13_SharedArea ==
    /\ [](OneInside /\ ReleasedOnExit)
    /\ [][MutationUnderLock]_vars
    /\ \A p \in Procs : Waiting(p) ~> (lock = p)

\* C13's case: a call was refused the overwrite and is over, and another
\* process is inside the area after it
C13_Witness ==
    \E p \in Procs, q \in Procs :
        /\ p # q
        /\ gen[p].pc = "done"
        /\ gen[p].outcome = "refused"
        /\ lock = q
        /\ gen[q].pc = "hist"

\* ------------------------------------------------------------------------
\* C11: generate_baseline without allow_baseline_overwrite never overwrites
\* ------------------------------------------------------------------------

\* the step is a step of the call of process p
StepOf(p) == gen'[p] # gen[p]

\* the call of process p is a generate_baseline with
\* allow_baseline_overwrite=False
NoOverwriteCall(p) ==
    gen[p].op = "generate_baseline" /\ ~gen[p].allow

\* the baseline directory holds files of an earlier generate_baseline when
\* the call of process p comes to it
HoldsEarlierFiles(p) ==
    tree.dir /\ \E e \in tree.files : e[2] # gen[p].tag

\* C11: a generate_baseline with allow_baseline_overwrite=False that finds
\* the baseline directory with baseline files of an earlier generate_baseline
\* in it aborts with the 'refusing to overwrite' error, and no step of such a
\* call removes or replaces a baseline file that was there
C11_NoOverwrite ==
    [][\A p \in Procs :
          (StepOf(p) /\ NoOverwriteCall(p)) =>
              /\ (gen[p].pc = "makedirs" /\ HoldsEarlierFiles(p))
                     => gen'[p].outcome = "refused"
              /\ \A e \in tree.files : e \in tree'.files]_vars

\* ------------------------------------------------------------------------
\* C12: the bless log only grows, by one record for a generate_baseline
\* that succeeds
\* ------------------------------------------------------------------------

\* the step is the one in which a generate_baseline comes through the last
\* expect: the call returns success
SucceedsNow(p) ==
    /\ gen[p].op = "generate_baseline"
    /\ gen[p].pc = "finish"
    /\ gen'[p].outcome = "ok"

\* the log after the step is the log before it and one record more
OneRecordMore ==
    /\ bless'.exists
    /\ bless'.lines = Append(bless.lines, BlessRecord)

\* the log before the step is a prefix of the log after it
PrefixKept ==
    /\ bless.exists => bless'.exists
    /\ Len(bless.lines) <= Len(bless'.lines)
    /\ SubSeq(bless'.lines, 1, Len(bless.lines)) = bless.lines

\* C12 as stated: over any sequence of generate_baseline, compare_baseline,
\* copy_histfiles and rename_all_hist_files the bless log before a step is a
\* prefix of the log after it, every generate_baseline that returns success
\* appends exactly one record, creating the log if absent, and every other
\* step appends nothing
C12_AppendOnlyAsStated ==
    [][/\ PrefixKept
       /\ IF \E p \in Procs : SucceedsNow(p)
          THEN OneRecordMore
          ELSE bless' = bless]_vars

\* C12, amended: the same, but the record is appended by the
\* generate_baseline calls that return success under the model e3sm, and a
\* call that returns success under another model appends nothing
C12_AppendOnly ==
    [][/\ PrefixKept
       /\ IF \E p \in Procs : SucceedsNow(p) /\ gen'[p].get_model = "e3sm"
          THEN OneRecordMore
          ELSE bless' = bless]_vars

\* a first generate_baseline under e3sm has appended its record, and a
\* second generate_baseline has returned success under cesm with the log as
\* it was
C12_Witness ==
    /\ bless = [exists |-> TRUE, lines |-> <<BlessRecord>>]
    /\ gen[1].op = "generate_baseline"
    /\ gen[1].pc = "done"
    /\ gen[1].outcome = "ok"
    /\ gen[1].get_model = "cesm"
    /\ gen[1].tag = 2


====
